---- MODULE Spec2Model ----
(***************************************************************************)
(* nu-history-skim: the scoped search loop of src/bin/nu-history-skim.rs.  *)
(*                                                                         *)
(* show_history (the Session Controller) loops: it spawns a thread that    *)
(* runs send_entries (the Search Producer), runs the skim picker on the    *)
(* receiving end of a fresh unbounded channel, joins the thread and then   *)
(* interprets the picker's output.  The picker (skim) and the history      *)
(* store (reedline's SqliteBackedHistory) are external: what they return   *)
(* is a nondeterministic choice over small sets.                           *)
(*                                                                         *)
(* Strings are TLA+ strings; Option<T> is <<>> (None) or <<x>> (Some(x)).  *)
(***************************************************************************)
EXTENDS Integers, Sequences, FiniteSets, TLC

VARIABLES
    pc,          \* position of the main thread in show_history / main
    location,    \* show_history's `location`
    query,       \* show_history's `query` (args.query)
    env,         \* the machine and working directory the program started in
    iter,        \* number of loop iterations that have spawned their thread
    threads,     \* threads[i]: the producer thread spawned in iteration i
    chan,        \* items sent into the current iteration's channel
    nrecv,       \* how many of them the picker has taken out of the channel
    rx_alive,    \* the current channel's receiver has not been dropped
    options,     \* the SkimOptions of the current iteration (query, header)
    pquery,      \* the picker's query buffer (what the user has typed)
    output,      \* what Skim::run_with returned last
    stdout,      \* everything written to standard output
    exit_code,   \* process exit status; Running while the process lives
    cycles,      \* history: ctrl-r exit signals the picker has yielded
    others,      \* history: unrecognized-key exit signals it has yielded
    last_signal, \* history: final key and query buffer of the output that
                 \* sent the loop round again
    full,        \* history: the rows the current iteration's query returned
    fmt          \* an entry in the picker's list, the time zone, and what
                 \* display() and preview() returned for it

vars == <<pc, location, query, env, iter, threads, chan, nrecv, rx_alive,
          options, pquery, output, stdout, exit_code, cycles, others,
          last_signal, full, fmt>>

(***************************************************************************)
(* Bounds                                                                  *)
(***************************************************************************)
MaxIter == 4        \* loop iterations explored
MaxRes == 2         \* longest result a store query returns

(***************************************************************************)
(* Values                                                                  *)
(***************************************************************************)
None == <<>>
Some(x) == <<x>>

Location == {"Session", "Directory", "Machine", "Everywhere"}

\* final_key values: the four keys of the first match arm, Enter, ctrl-r,
\* and one key that falls to the `_` arm (skim also aborts on ctrl-g).
AbortKeys == {"ESC", "Ctrl-c", "Ctrl-d", "Ctrl-z"}
Keys == AbortKeys \cup {"Enter", "Ctrl-r", "Ctrl-g"}

QueryTexts == {"", "ls"}          \* args.query
TypedTexts == {"", "cd"}          \* what the user can leave in the buffer
\* the machine and directory the program may be started in; cwd_readable is
\* FALSE when the directory has been removed before the start
Environments == {[hostname |-> "alpha", cwd |-> "/home", cwd_readable |-> TRUE],
                 [hostname |-> "alpha", cwd |-> "/home", cwd_readable |-> FALSE]}

\* while the program runs the machine can be given another name and the
\* working directory can be moved
ChangedHostname == "beta"
MovedDir(d) == d \o "_moved"

\* what gethostname() and std::env::current_dir() give at the time of a
\* call: both are read anew by every get_current_host / get_current_dir
EnvNow(e) ==
    {[hostname |-> h, cwd |-> d] :
        h \in {e.hostname, ChangedHostname}, d \in {e.cwd, MovedDir(e.cwd)}}

\* the rows of the history store, oldest first
History == <<[id |-> Some(1), command_line |-> "ls -la"],
             [id |-> Some(2), command_line |-> "cd /tmp"],
             [id |-> Some(3), command_line |-> "git log"]>>

HistoryItem == {History[n] : n \in 1..Len(History)}

\* the rows numbered in `ids`, most recent first (SearchDirection::Backward)
RECURSIVE Backward(_)
Backward(ids) ==
    IF ids = {} THEN <<>>
    ELSE LET top == CHOOSE n \in ids : \A m \in ids : m <= n
         IN  <<History[top]>> \o Backward(ids \ {top})

\* what history.search(..) can return when it succeeds: the rows that match
\* the filter (any subset of at most MaxRes rows), most recent first
Results == {Backward(ids) : ids \in {r \in SUBSET (1..Len(History)) : Cardinality(r) <= MaxRes}}

NoOutput == [kind |-> "unset"]
PickerFailed == [kind |-> "None"]
SkimOutput(key, q, sel) ==
    [kind |-> "Some", final_key |-> key, query |-> q, selected_items |-> sel]

Running == -1
PanicExit == 101

(***************************************************************************)
(* Pure functions                                                          *)
(***************************************************************************)
\* variant: the last arm wraps to Directory, so Session is never entered again
NextLocationSkipsSession(l) ==
    CASE l = "Session"    -> "Directory"
      [] l = "Directory"  -> "Machine"
      [] l = "Machine"    -> "Everywhere"
      [] l = "Everywhere" -> "Directory"

\* the match on `location` in the Ctrl('r') arm
NextLocation(l) ==
    CASE l = "Session"    -> "Directory"
      [] l = "Directory"  -> "Machine"
      [] l = "Machine"    -> "Everywhere"
      [] l = "Everywhere" -> "Session"

\* the outcomes of get_current_dir where scope loc calls it: TRUE when it
\* returns, FALSE when std::env::current_dir() is an Err and .unwrap()
\* panics (the directory was removed, before the start or since)
GetCurrentDir(loc, e) ==
    IF loc # "Directory" THEN {TRUE}
    ELSE IF e.cwd_readable THEN {TRUE, FALSE} ELSE {FALSE}

\* get_current_session_id
SessionId == "1"

LocationMap(loc) ==
    CASE loc = "Session"    -> "Session history"
      [] loc = "Directory"  -> "Directory history"
      [] loc = "Machine"    -> "Machine history"
      [] loc = "Everywhere" -> "Everywhere"

\* the closure extra_info of generate_title (where get_current_dir returns)
ExtraInfo(loc, e) ==
    CASE loc = "Session"    -> SessionId
      [] loc = "Directory"  -> e.cwd
      [] loc = "Machine"    -> e.hostname
      [] loc = "Everywhere" -> ""

\* generate_title: "{} {}\n{}\n" of the scope's name, the extra info and the
\* scope's tab bar (header_map), which is kept as the scope it is drawn for
GenerateTitle(loc, e) ==
    [text |-> LocationMap(loc) \o " " \o ExtraInfo(loc, e) \o "\n",
     header_map |-> loc]

\* HistoryItemSkim::output
Output(item) == item.command_line

\* HistoryItemSkim::text
Text(item) == item.command_line

\* variant: the two location tests are swapped
BuildFilterSwapped(loc, start_query, e) ==
    [command_line |-> Some(start_query),
     hostname     |-> IF loc = "Directory" THEN None ELSE Some(e.hostname),
     cwd_exact    |-> IF loc = "Everywhere" THEN Some(e.cwd) ELSE None]

\* the SearchFilter send_entries builds
BuildFilter(loc, start_query, e) ==
    [command_line |-> Some(start_query),
     hostname     |-> IF loc = "Everywhere" THEN None ELSE Some(e.hostname),
     cwd_exact    |-> IF loc = "Directory" THEN Some(e.cwd) ELSE None]

\* println!("Selected: {ele}")
PrintSelected(ele) == "Selected: " \o ele \o "\n"

(***************************************************************************)
(* The entry formatter (impl SkimItem for HistoryItemSkim)                 *)
(*                                                                         *)
(* An entry is a reedline HistoryItem: every field but command_line is an  *)
(* Option.  A timestamp is [day, min]: an index into Days and the minute   *)
(* of that day, in UTC; a duration is [secs, millis] as in std Duration.   *)
(* The escape character of the ANSI colour codes is written ^[.            *)
(***************************************************************************)
DATE_FORMAT_LENGTH == 16
DURATION_FORMAT_LENGTH == 3

Days == <<"2026-10-29", "2026-10-30", "2026-10-31", "2026-11-01">>

\* chrono::offset::Local::now(), in UTC
Now == [day |-> 3, min |-> 720]

\* format!("{:>w$}", s): pads on the left up to w, never shortens
RECURSIVE PadLeft(_, _)
PadLeft(s, w) == IF Len(s) >= w THEN s ELSE PadLeft(" " \o s, w)

\* %H and %M: two digits
TwoDigits(n) == IF n < 10 THEN "0" \o ToString(n) ELSE ToString(n)

\* d.with_timezone(&Local), tz being Local's offset from UTC in minutes
WithTimezone(t, tz) ==
    LET total == t.min + tz
    IN  [day |-> IF total >= 1440 THEN t.day + 1
                 ELSE IF total < 0 THEN t.day - 1 ELSE t.day,
         min |-> (total + 1440) % 1440]

HourMinute(t) == TwoDigits(t.min \div 60) \o ":" \o TwoDigits(t.min % 60)

\* pretty_date_str
PrettyDateStr(t, tz) ==
    LET d == WithTimezone(t, tz)
    IN  IF d.day = WithTimezone(Now, tz).day
        THEN HourMinute(d)
        ELSE Days[d.day] \o " " \o HourMinute(d)

\* the whole milliseconds halfway between two tenths whose f64 is not above
\* the halfway point: 0.25 is exact (the tie goes to the even digit), the
\* f64 nearest to 0.15, 0.35, 0.85 and 0.95 lies below it
HalfwayRoundedDown == {150, 250, 350, 850, 950}

\* format!("{:.1}", d.as_secs_f64()) for d < 1s: the tenth nearest to the
\* f64 value
OneDecimal(millis) ==
    LET tenths == IF millis \in HalfwayRoundedDown THEN millis \div 100
                  ELSE (millis + 50) \div 100
    IN  ToString(tenths \div 10) \o "." \o ToString(tenths % 10)

\* pretty_duration_str
PrettyDurationStr(d) ==
    IF d.secs < 1
    THEN PadLeft(OneDecimal(d.millis), DURATION_FORMAT_LENGTH) \o " s"
    ELSE IF d.secs < 60
    THEN PadLeft(ToString(d.secs), DURATION_FORMAT_LENGTH) \o " s"
    ELSE IF d.secs < 60 * 60
    THEN PadLeft(ToString(d.secs \div 60), DURATION_FORMAT_LENGTH) \o " m"
    ELSE PadLeft(ToString((d.secs \div 60) \div 60), DURATION_FORMAT_LENGTH) \o " h"

\* ansi_term: Colour::X.paint(s) / Style::new().bold().paint(s)
Paint(code, s) == "^[[" \o code \o "m" \o s \o "^[[0m"
Bold == "1"
Red == "31"
Green == "32"
Yellow == "33"

\* variant: the first tier is tested with <= instead of <
AnsiDurationStrInclusive(d) ==
    LET s == PrettyDurationStr(d)
    IN  IF d.secs < 5 \/ (d.secs = 5 /\ d.millis = 0) THEN s
        ELSE IF d.secs < 60 THEN Paint(Yellow, s)
        ELSE Paint(Red, s)

\* ansi_duration_str
AnsiDurationStr(d) ==
    LET s == PrettyDurationStr(d)
    IN  IF d.secs < 5 THEN s
        ELSE IF d.secs < 60 THEN Paint(Yellow, s)
        ELSE Paint(Red, s)

\* what a formatter call gives back: a string, or a panic
NotCalled == [called |-> FALSE, ok |-> TRUE, text |-> ""]
Returned(s) == [called |-> TRUE, ok |-> TRUE, text |-> s]
Panics == [called |-> TRUE, ok |-> FALSE, text |-> ""]

\* HistoryItemSkim::display
Display(item, tz) ==
    LET date == IF item.start_timestamp = None THEN "??:??"
                ELSE PrettyDateStr(item.start_timestamp[1], tz)
        duration == IF item.duration = None THEN "     "
                    ELSE AnsiDurationStr(item.duration[1])
    IN  Returned(PadLeft(date, DATE_FORMAT_LENGTH) \o " | " \o duration
                    \o " | " \o item.command_line)

\* DateTime<Local>::to_string(): date, time with seconds, offset
LocalToString(t, tz) ==
    LET d == WithTimezone(t, tz)
        off == IF tz < 0 THEN -tz ELSE tz
    IN  Days[d.day] \o " " \o HourMinute(d) \o ":00 "
            \o (IF tz < 0 THEN "-" ELSE "+")
            \o TwoDigits(off \div 60) \o ":" \o TwoDigits(off % 60)

UnwrapOr(opt, placeholder) == IF opt = None THEN placeholder ELSE opt[1]

\* HistoryItemSkim::preview; item.id.map(..).unwrap() panics on None
Preview(item, tz) ==
    IF item.id = None THEN Panics
    ELSE Returned(
        Paint(Bold, "Details for entry HistoryItemId(" \o ToString(item.id[1]) \o ")")
        \o "\nHost: " \o UnwrapOr(item.hostname, "<unknown>")
        \o "\nDirectory: " \o UnwrapOr(item.cwd, "<unknown>")
        \o "\nSession: "
        \o (IF item.session_id = None THEN "<unknown>"
            ELSE "HistorySessionId(" \o ToString(item.session_id[1]) \o ")")
        \o "\nTimestamp: "
        \o (IF item.start_timestamp = None THEN "<unknown>"
            ELSE LocalToString(item.start_timestamp[1], tz))
        \o "\nDuration: "
        \o (IF item.duration = None THEN "<unknown>"
            ELSE AnsiDurationStr(item.duration[1]))
        \o "\n"
        \o (IF item.exit_status = Some(0) THEN Paint(Green, "Exit Status: 0")
            ELSE Paint(Red, "Exit Status: "
                    \o (IF item.exit_status = None THEN "<unknown>"
                        ELSE ToString(item.exit_status[1]))))
        \o "\nCommand:\n\n" \o item.command_line \o "\n")

\* the entries the formatter is applied to
Durations ==
    {[secs |-> 0, millis |-> 0], [secs |-> 0, millis |-> 50],
     [secs |-> 0, millis |-> 250], [secs |-> 0, millis |-> 400],
     [secs |-> 0, millis |-> 750], [secs |-> 0, millis |-> 950],
     [secs |-> 0, millis |-> 999], [secs |-> 1, millis |-> 0],
     [secs |-> 4, millis |-> 900], [secs |-> 4, millis |-> 999],
     [secs |-> 5, millis |-> 0], [secs |-> 30, millis |-> 0],
     [secs |-> 59, millis |-> 999], [secs |-> 60, millis |-> 0],
     [secs |-> 90, millis |-> 0], [secs |-> 3599, millis |-> 999],
     [secs |-> 3600, millis |-> 0], [secs |-> 7200, millis |-> 0],
     [secs |-> 3599999, millis |-> 0], [secs |-> 3600000, millis |-> 0]}

Timestamps == {[day |-> 3, min |-> 30], [day |-> 2, min |-> 1410],
               [day |-> 3, min |-> 1410]}

Offsets == {-60, 0, 60}

Opt(S) == {None} \cup {Some(x) : x \in S}

Entries ==
    [id : Opt({7}), command_line : {"ls -la"},
     start_timestamp : Opt(Timestamps), duration : Opt(Durations),
     exit_status : Opt({0, 1}), hostname : Opt({"alpha"}), cwd : Opt({"/home"}),
     session_id : Opt({1})]

\* an entry of the store proper: every row of the sqlite store has its id
StoredEntry ==
    [id |-> Some(1), command_line |-> "ls -la", start_timestamp |-> None,
     duration |-> None, exit_status |-> None, hostname |-> None, cwd |-> None,
     session_id |-> None]

(***************************************************************************)
(* Producer threads                                                        *)
(***************************************************************************)
\* the closure of std::thread::spawn: it owns copies of location and query
NewThread(loc, q) ==
    [st |-> "open", why |-> "", location |-> loc, query |-> q,
     filter |-> None, res |-> <<>>, nq |-> 0, joined |-> FALSE]

Alive(t) == t.st \in {"open", "search", "send"}

\* the sender of thread i feeds the channel made in iteration i, whose
\* receiver lives inside that iteration's Skim::run_with call
ReceiverAlive(i) == i = iter /\ rx_alive

\* a panic unwinds the thread: its locals are dropped
Panicked(t, w) ==
    [t EXCEPT !.st = "panicked", !.why = w, !.res = <<>>, !.filter = None]

\* SqliteBackedHistory::with_file(path).unwrap()
ProducerOpen(i) ==
    /\ i \in 1..Len(threads)
    /\ threads[i].st = "open"
    /\ \E ok \in BOOLEAN :
         threads' = [threads EXCEPT ![i] =
                        IF ok THEN [@ EXCEPT !.st = "search"]
                        ELSE Panicked(@, "open")]
    /\ UNCHANGED <<pc, location, query, env, iter, chan, nrecv, rx_alive,
                   options, pquery, output, stdout, exit_code, cycles, others, last_signal, full, fmt>>

\* variant: only the first row of what the query returned is kept for sending
ProducerSearchFirstRow(i) ==
    /\ i \in 1..Len(threads)
    /\ threads[i].st = "search"
    /\ TRUE \in GetCurrentDir(threads[i].location, env)
    /\ \E e \in EnvNow(env) :
       LET t == threads[i]
           f == [command_line |-> Some(t.query),
                 hostname |-> IF t.location = "Everywhere" THEN None ELSE Some(e.hostname),
                 cwd_exact |-> IF t.location = "Directory" THEN Some(e.cwd) ELSE None]
       IN  \E r \in Results :
                /\ threads' = [threads EXCEPT ![i] =
                    [@ EXCEPT !.st = "send", !.filter = Some(f),
                              !.res = IF r = <<>> THEN <<>> ELSE <<r[1]>>,
                              !.nq = @ + 1]]
                /\ full' = r
    /\ UNCHANGED <<pc, location, query, env, iter, chan, nrecv, rx_alive,
                   options, pquery, output, stdout, exit_code, cycles, others, last_signal, fmt>>

\* variant: the search is issued a second time after the first
ProducerSearchTwice(i) ==
    /\ i \in 1..Len(threads)
    /\ threads[i].st = "search"
    /\ TRUE \in GetCurrentDir(threads[i].location, env)
    /\ \E e \in EnvNow(env) :
       LET t == threads[i]
           f == [command_line |-> Some(t.query),
                 hostname |-> IF t.location = "Everywhere" THEN None ELSE Some(e.hostname),
                 cwd_exact |-> IF t.location = "Directory" THEN Some(e.cwd) ELSE None]
       IN  \E r \in Results :
                /\ threads' = [threads EXCEPT ![i] =
                    [@ EXCEPT !.st = "send", !.filter = Some(f),
                              !.res = r, !.nq = @ + 2]]
                /\ full' = r
    /\ UNCHANGED <<pc, location, query, env, iter, chan, nrecv, rx_alive,
                   options, pquery, output, stdout, exit_code, cycles, others, last_signal, fmt>>

\* filter construction (get_current_dir panics when the directory cannot be
\* read) and history.search(SearchQuery{..}).unwrap()
ProducerSearch(i) ==
    /\ i \in 1..Len(threads)
    /\ threads[i].st = "search"
    /\ \E e \in EnvNow(env) :
       LET t == threads[i]
           f == BuildFilter(t.location, t.query, e)
       IN  \E cwd_ok \in GetCurrentDir(t.location, env) :
           IF ~cwd_ok
           THEN /\ threads' = [threads EXCEPT ![i] = Panicked(@, "cwd")]
                /\ UNCHANGED full
           ELSE \/ \E r \in Results :
                     /\ threads' = [threads EXCEPT ![i] =
                           [@ EXCEPT !.st = "send", !.filter = Some(f),
                                     !.res = r, !.nq = @ + 1]]
                     /\ full' = r
                \/ /\ threads' = [threads EXCEPT ![i] =
                         [Panicked(@, "search") EXCEPT !.nq = @ + 1]]
                   /\ UNCHANGED full
    /\ UNCHANGED <<pc, location, query, env, iter, chan, nrecv, rx_alive,
                   options, pquery, output, stdout, exit_code, cycles, others, last_signal, fmt>>

\* variant: the rows are taken from the back of the result
ProducerSendFromBack(i) ==
    /\ i \in 1..Len(threads)
    /\ threads[i].st = "send"
    /\ threads[i].res # <<>>
    /\ IF ReceiverAlive(i)
       THEN /\ chan' = Append(chan, threads[i].res[Len(threads[i].res)])
            /\ threads' = [threads EXCEPT ![i].res = SubSeq(@, 1, Len(@) - 1)]
       ELSE /\ threads' = [threads EXCEPT ![i] = Panicked(@, "send")]
            /\ UNCHANGED chan
    /\ UNCHANGED <<pc, location, query, env, iter, nrecv, rx_alive,
                   options, pquery, output, stdout, exit_code, cycles, others, last_signal, full, fmt>>

\* one turn of `for item in res { sender.send(..).unwrap(); }`
ProducerSend(i) ==
    /\ i \in 1..Len(threads)
    /\ threads[i].st = "send"
    /\ threads[i].res # <<>>
    /\ IF ReceiverAlive(i)
       THEN /\ chan' = Append(chan, Head(threads[i].res))
            /\ threads' = [threads EXCEPT ![i].res = Tail(@)]
       ELSE /\ threads' = [threads EXCEPT ![i] = Panicked(@, "send")]
            /\ UNCHANGED chan
    /\ UNCHANGED <<pc, location, query, env, iter, nrecv, rx_alive,
                   options, pquery, output, stdout, exit_code, cycles, others, last_signal, full, fmt>>

\* send_entries returns: the sender and the locals are dropped, the thread
\* ends
ProducerFinish(i) ==
    /\ i \in 1..Len(threads)
    /\ threads[i].st = "send"
    /\ threads[i].res = <<>>
    /\ threads' = [threads EXCEPT ![i].st = "finished", ![i].filter = None]
    /\ UNCHANGED <<pc, location, query, env, iter, chan, nrecv, rx_alive,
                   options, pquery, output, stdout, exit_code, cycles, others, last_signal, full, fmt>>

(***************************************************************************)
(* The picker (skim), between the call of Skim::run_with and its return    *)
(***************************************************************************)
\* skim's reader takes one item out of the channel
PickerRecv ==
    /\ pc = "picker"
    /\ nrecv < Len(chan)
    /\ nrecv' = nrecv + 1
    /\ UNCHANGED <<pc, location, query, env, iter, threads, chan, rx_alive,
                   options, pquery, output, stdout, exit_code, cycles, others, last_signal, full, fmt>>

\* the user edits the query buffer
PickerType ==
    /\ pc = "picker"
    /\ \E q \in TypedTexts \ {pquery} : pquery' = q
    /\ UNCHANGED <<pc, location, query, env, iter, threads, chan, nrecv, rx_alive,
                   options, output, stdout, exit_code, cycles, others, last_signal, full, fmt>>

\* what skim can hand back: nothing at all, or the final key with the query
\* buffer and (multi(false)) at most one of the items it has received
PickerOutputs ==
    {PickerFailed} \cup
    {SkimOutput(k, pquery, sel) :
        k \in Keys, sel \in {<<>>} \cup {<<chan[n]>> : n \in 1..nrecv}}

\* Skim::run_with returns; the receiver it was given is dropped with it
PickerExit ==
    /\ pc = "picker"
    /\ \E o \in PickerOutputs :
         /\ output' = o
         /\ cycles' = IF o.kind = "Some" /\ o.final_key = "Ctrl-r"
                      THEN cycles + 1 ELSE cycles
         /\ others' = IF o.kind = "Some" /\ o.final_key = "Ctrl-g"
                      THEN others + 1 ELSE others
    /\ rx_alive' = FALSE
    /\ pc' = "join"
    /\ UNCHANGED <<location, query, env, iter, threads, chan, nrecv,
                   options, pquery, stdout, exit_code, last_signal, full, fmt>>

(***************************************************************************)
(* show_history and main                                                   *)
(***************************************************************************)
\* top of the loop: the title, the options, a fresh channel, the producer
\* thread; generate_title panics on the main thread, before any of the
\* rest, when it needs the working directory and cannot read it
Spawn ==
    /\ pc = "spawn"
    /\ iter < MaxIter
    /\ \E e \in EnvNow(env), cwd_ok \in GetCurrentDir(location, env) :
       IF ~cwd_ok
       THEN /\ pc' = "panic"
            /\ exit_code' = PanicExit
            /\ UNCHANGED <<iter, options, pquery, chan, nrecv, full, rx_alive, threads>>
       ELSE /\ iter' = iter + 1
            /\ options' = [query |-> Some(query),
                           header |-> Some(GenerateTitle(location, e))]
            /\ pquery' = query
            /\ chan' = <<>>
            /\ nrecv' = 0
            /\ full' = <<>>
            /\ rx_alive' = TRUE
            /\ threads' = Append(threads, NewThread(location, query))
            /\ pc' = "picker"
            /\ UNCHANGED exit_code
    /\ UNCHANGED <<location, query, env, output, stdout, cycles, others, last_signal, fmt>>

\* variant: the handle is dropped instead of joined, nothing is waited for
JoinReadyDetached(t) == TRUE

\* handle.join() returns once the thread has ended
JoinReady(t) == t.st \in {"finished", "panicked"}

\* variant: the join result is discarded (`let _ = handle.join()`)
JoinPanicsIgnored(t) == FALSE

\* handle.join() is Err when the thread panicked, and .unwrap() panics on it
JoinPanics(t) == t.st = "panicked"

Join ==
    /\ pc = "join"
    /\ JoinReady(threads[iter])
    /\ threads' = [threads EXCEPT ![iter].joined = TRUE]
    /\ IF JoinPanics(threads[iter])
       THEN pc' = "panic" /\ exit_code' = PanicExit
       ELSE pc' = "match" /\ UNCHANGED exit_code
    /\ UNCHANGED <<location, query, env, iter, chan, nrecv, rx_alive,
                   options, pquery, output, stdout, cycles, others, last_signal, full, fmt>>

\* `else` of `if let Some(o) = output`: break, main returns
InterpretNone ==
    /\ pc = "match"
    /\ output.kind = "None"
    /\ pc' = "exit"
    /\ exit_code' = 0
    /\ UNCHANGED <<location, query, env, iter, threads, chan, nrecv, rx_alive,
                   options, pquery, output, stdout, cycles, others, last_signal, full, fmt>>

\* Key::ESC | Key::Ctrl('c') | Key::Ctrl('d') | Key::Ctrl('z') => break
InterpretAbort ==
    /\ pc = "match"
    /\ output.kind = "Some"
    /\ output.final_key \in AbortKeys
    /\ pc' = "exit"
    /\ exit_code' = 0
    /\ UNCHANGED <<location, query, env, iter, threads, chan, nrecv, rx_alive,
                   options, pquery, output, stdout, cycles, others, last_signal, full, fmt>>

\* Key::Enter: arr[0] is printed; indexing an empty arr panics
InterpretEnter ==
    /\ pc = "match"
    /\ output.kind = "Some"
    /\ output.final_key = "Enter"
    /\ IF output.selected_items = <<>>
       THEN /\ pc' = "panic"
            /\ exit_code' = PanicExit
            /\ UNCHANGED stdout
       ELSE /\ stdout' = stdout \o PrintSelected(Output(output.selected_items[1]))
            /\ pc' = "exit"
            /\ exit_code' = 0
    /\ UNCHANGED <<location, query, env, iter, threads, chan, nrecv, rx_alive,
                   options, pquery, output, cycles, others, last_signal, full, fmt>>

\* Key::Ctrl('r'): advance the location, loop
InterpretCycle ==
    /\ pc = "match"
    /\ output.kind = "Some"
    /\ output.final_key = "Ctrl-r"
    /\ location' = NextLocation(location)
    /\ last_signal' = Some([final_key |-> output.final_key, query |-> output.query])
    /\ output' = NoOutput
    /\ pc' = "spawn"
    /\ UNCHANGED <<query, env, iter, threads, chan, nrecv, rx_alive,
                   options, pquery, stdout, exit_code, cycles, others, full, fmt>>

\* `_ => {}`: loop; o goes out of scope at the end of the loop body
InterpretOther ==
    /\ pc = "match"
    /\ output.kind = "Some"
    /\ output.final_key \notin AbortKeys \cup {"Enter", "Ctrl-r"}
    /\ last_signal' = Some([final_key |-> output.final_key, query |-> output.query])
    /\ output' = NoOutput
    /\ pc' = "spawn"
    /\ UNCHANGED <<location, query, env, iter, threads, chan, nrecv, rx_alive,
                   options, pquery, stdout, exit_code, cycles, others, full, fmt>>

(***************************************************************************)
(* Specification                                                           *)
(***************************************************************************)
Init ==
    /\ pc = "spawn"
    /\ location = "Directory"
    /\ query \in QueryTexts
    /\ env \in Environments
    /\ iter = 0
    /\ threads = <<>>
    /\ chan = <<>>
    /\ nrecv = 0
    /\ rx_alive = FALSE
    /\ options = [query |-> None, header |-> None]
    /\ pquery = ""
    /\ output = NoOutput
    /\ stdout = ""
    /\ exit_code = Running
    /\ cycles = 0
    /\ others = 0
    /\ last_signal = None
    /\ full = <<>>
    /\ fmt = [item |-> StoredEntry, tz |-> 0, display |-> NotCalled,
              preview |-> NotCalled]

Next ==
    \/ Spawn
    \/ \E i \in 1..MaxIter : ProducerOpen(i)
    \/ \E i \in 1..MaxIter : ProducerSearch(i)
    \/ \E i \in 1..MaxIter : ProducerSend(i)
    \/ \E i \in 1..MaxIter : ProducerFinish(i)
    \/ PickerRecv
    \/ PickerType
    \/ PickerExit
    \/ Join
    \/ InterpretNone
    \/ InterpretAbort
    \/ InterpretEnter
    \/ InterpretCycle
    \/ InterpretOther

Spec == Init /\ [][Next]_vars

(***************************************************************************)
(* The formatter on its own: any entry, in any time zone, is displayed and *)
(* previewed by the picker                                                 *)
(***************************************************************************)
\* skim calls display() for a line of the list
FmtDisplay ==
    /\ ~fmt.display.called
    /\ fmt' = [fmt EXCEPT !.display = Display(fmt.item, fmt.tz)]
    /\ UNCHANGED <<pc, location, query, env, iter, threads, chan, nrecv, rx_alive,
                   options, pquery, output, stdout, exit_code, cycles, others,
                   last_signal, full>>

\* skim calls preview() for the highlighted line
FmtPreview ==
    /\ ~fmt.preview.called
    /\ fmt' = [fmt EXCEPT !.preview = Preview(fmt.item, fmt.tz)]
    /\ UNCHANGED <<pc, location, query, env, iter, threads, chan, nrecv, rx_alive,
                   options, pquery, output, stdout, exit_code, cycles, others,
                   last_signal, full>>

FmtInit ==
    /\ pc = "picker"
    /\ location = "Directory"
    /\ query = ""
    /\ env = [hostname |-> "alpha", cwd |-> "/home", cwd_readable |-> TRUE]
    /\ iter = 1
    /\ threads = <<[NewThread("Directory", "") EXCEPT !.st = "finished", !.nq = 1]>>
    /\ chan = <<>>
    /\ nrecv = 0
    /\ rx_alive = TRUE
    /\ options = [query |-> Some(""),
                  header |-> Some(GenerateTitle("Directory", env))]
    /\ pquery = ""
    /\ output = NoOutput
    /\ stdout = ""
    /\ exit_code = Running
    /\ cycles = 0
    /\ others = 0
    /\ last_signal = None
    /\ full = <<>>
    /\ \E e \in Entries, z \in Offsets :
         fmt = [item |-> e, tz |-> z, display |-> NotCalled, preview |-> NotCalled]

FmtNext == FmtDisplay \/ FmtPreview

FmtSpec == FmtInit /\ [][FmtNext]_vars

TypeOK ==
    /\ pc \in {"spawn", "picker", "join", "match", "exit", "panic"}
    /\ location \in Location
    /\ iter \in 0..MaxIter
    /\ Len(threads) = iter
    /\ nrecv \in 0..Len(chan)
    /\ exit_code \in {Running, 0, PanicExit}

(***************************************************************************)
(* Derived notions used by the properties                                  *)
(***************************************************************************)
LiveProducers == {i \in 1..Len(threads) : Alive(threads[i])}

\* the store could not be opened, or its query failed, in some iteration
StoreFailed == \E i \in 1..Len(threads) : threads[i].why \in {"open", "search"}

\* some producer thread panicked
ProducerPanicked == \E i \in 1..Len(threads) : threads[i].st = "panicked"

\* the picker has returned a final key that show_history has not matched on
\* (a panic of the join comes before the match, the panic of arr[0] is inside
\* the Enter arm of it)
Pending(keys) ==
    /\ \/ pc \in {"join", "match"}
       \/ pc = "panic" /\ iter >= 1 /\ JoinPanics(threads[iter])
    /\ output.kind = "Some"
    /\ output.final_key \in keys

\* generate_title panicked at the top of an iteration: no output is held
\* there (the panics of the join and of arr[0] come with one)
TitlePanicked == pc = "panic" /\ output.kind = "unset"

\* the store queries issued so far, per iteration
QueriesIssued == [i \in 1..Len(threads) |-> threads[i].nq]

\* the fixed cyclic order of the scopes, written out
CycleOrder == <<"Session", "Directory", "Machine", "Everywhere">>
ScopeAfter(k) == CycleOrder[((1 + k) % 4) + 1]
Successor(l) == CHOOSE m \in Location :
    \E n \in 1..4 : CycleOrder[n] = l /\ CycleOrder[(n % 4) + 1] = m

(***************************************************************************)
(* C1: at most one Search Producer is alive in every reachable state; the  *)
(* producer of every earlier iteration has ended and been joined before    *)
(* the next one exists, and none is alive once its iteration's join has    *)
(* returned.                                                               *)
(***************************************************************************)
C1_OneProducerAlive ==
    /\ Cardinality(LiveProducers) <= 1
    /\ \A i \in 1..Len(threads) :
         i < iter => ~Alive(threads[i]) /\ threads[i].joined
    /\ pc \in {"spawn", "match", "exit", "panic"} => LiveProducers = {}

\* a later iteration's producer is running after a scope cycle
C1_Witness ==
    /\ iter >= 2
    /\ cycles >= 1
    /\ Alive(threads[iter])
    /\ threads[iter - 1].joined

(***************************************************************************)
(* C2 (as claimed): after a cycle-scope exit, the next iteration's picker  *)
(* starts from, and its store filter searches for, the query buffer the    *)
(* picker reported at that exit.                                           *)
(***************************************************************************)
C2_QueryCarriedOver ==
    (pc \in {"picker", "join", "match"} /\ last_signal # None
                                        /\ last_signal[1].final_key = "Ctrl-r")
        => /\ options.query = Some(last_signal[1].query)
           /\ threads[iter].query = last_signal[1].query
           /\ threads[iter].filter # None
                  => threads[iter].filter[1].command_line = Some(last_signal[1].query)

(***************************************************************************)
(* C3: the scope starts as Directory and is, in every state, the fixed     *)
(* order Session, Directory, Machine, Everywhere, Session applied once per *)
(* cycle-scope signal show_history has matched on; it changes only in the  *)
(* ctrl-r arm, to the successor; the step function is a bijection with a   *)
(* single cycle of length 4.                                               *)
(***************************************************************************)
RECURSIVE NextTimes(_, _)
NextTimes(l, n) == IF n = 0 THEN l ELSE NextLocation(NextTimes(l, n - 1))

C3_ScopeState ==
    /\ location = ScopeAfter(cycles - (IF Pending({"Ctrl-r"}) THEN 1 ELSE 0))
    /\ iter = 0 => location = "Directory"
    /\ \A l \in Location : NextLocation(l) = Successor(l)
    /\ \A l, m \in Location : NextLocation(l) = NextLocation(m) => l = m
    /\ {NextLocation(l) : l \in Location} = Location
    /\ \A l \in Location :
         /\ NextTimes(l, 4) = l
         /\ \A n \in 1..3 : NextTimes(l, n) # l

C3_ScopeStep ==
    location' # location =>
        /\ pc = "match"
        /\ output.kind = "Some"
        /\ output.final_key = "Ctrl-r"
        /\ location' = Successor(location)

C3_ScopeCycle == []C3_ScopeState /\ [][C3_ScopeStep]_vars

\* the scope has gone all the way round and a new iteration runs in it
C3_Witness ==
    /\ cycles = 3
    /\ pc = "picker"
    /\ location = "Session"

(***************************************************************************)
(* C4: every filter handed to the store has the query text as its command  *)
(* substring, a hostname constraint exactly when the scope is not          *)
(* Everywhere, and a working-directory constraint exactly when the scope   *)
(* is Directory, each with a value the environment gives when it is read;  *)
(* the scope and query it is built from are the controller's.              *)
(***************************************************************************)
C4_FilterBuilt ==
    /\ \A i \in 1..Len(threads) :
         threads[i].filter # None =>
            LET f == threads[i].filter[1]
                t == threads[i]
            IN  /\ f.command_line = Some(t.query)
                /\ (t.location # "Everywhere") =>
                      \E e \in EnvNow(env) : f.hostname = Some(e.hostname)
                /\ (t.location = "Everywhere") => f.hostname = None
                /\ (t.location = "Directory") =>
                      \E e \in EnvNow(env) : f.cwd_exact = Some(e.cwd)
                /\ (t.location # "Directory") => f.cwd_exact = None
    /\ pc \in {"picker", "join"} =>
         threads[iter].location = location /\ threads[iter].query = query

\* a filter has been built for the Everywhere scope with a non-empty query,
\* after one for the Directory scope
C4_Witness ==
    /\ iter >= 3
    /\ threads[iter].filter # None
    /\ threads[iter].location = "Everywhere"
    /\ threads[iter].query = "ls"
    /\ threads[1].location = "Directory"
    /\ threads[1].nq = 1

(***************************************************************************)
(* C5 (as claimed): after the accept key with a selected entry, standard   *)
(* output holds exactly that entry's command text (a line terminator is    *)
(* allowed for), nothing else.                                             *)
(***************************************************************************)
C5_OutputIsCommandText ==
    (pc = "exit" /\ output.kind = "Some" /\ output.final_key = "Enter")
        => LET cmd == output.selected_items[1].command_line
           IN  stdout \in {cmd, cmd \o "\n"}

(***************************************************************************)
(* C6 (as claimed): once the picker has exited with escape, ctrl-c, ctrl-d *)
(* or ctrl-z and the store has not failed, the controller ends Aborted: it *)
(* returns normally, with nothing written to standard output.              *)
(***************************************************************************)
C6_AbortKeyAborts ==
    (output.kind = "Some" /\ output.final_key \in AbortKeys /\ ~StoreFailed)
        => /\ pc \in {"join", "match", "exit"}
           /\ stdout = ""
           /\ pc = "exit" => exit_code = 0

(***************************************************************************)
(* C7 (as claimed): every iteration whose producer has been joined issued  *)
(* exactly one store query, so queries issued = iterations started.        *)
(***************************************************************************)
C7_OneQueryPerIteration ==
    \A i \in 1..Len(threads) : threads[i].joined => threads[i].nq = 1

(***************************************************************************)
(* C7 (amended): every iteration issues at most one store query, and       *)
(* exactly one as soon as its producer has opened the store and built its  *)
(* filter (none when the store cannot be opened or the working directory   *)
(* cannot be read); the producers spawned are one for the initial scope    *)
(* plus one per exit signal that sent the loop round again, less the one   *)
(* of an iteration that stopped at its title.                              *)
(***************************************************************************)
C7_OneQueryPerOpenedStore ==
    /\ \A i \in 1..Len(threads) :
         LET t == threads[i]
         IN  /\ t.nq <= 1
             /\ t.st \in {"open", "search"} => t.nq = 0
             /\ t.st \in {"send", "finished"} => t.nq = 1
             /\ t.st = "panicked" => (t.nq = 1 <=> t.why \notin {"open", "cwd"})
    /\ iter = 1 + cycles + others
                - (IF Pending({"Ctrl-r", "Ctrl-g"}) THEN 1 ELSE 0)
                - (IF pc = "spawn" \/ TitlePanicked THEN 1 ELSE 0)

\* the scope was cycled twice: two further queries, three in all
C7_Witness ==
    /\ iter = 3
    /\ cycles = 2
    /\ others = 0
    /\ \A i \in 1..3 : threads[i].nq = 1
    /\ threads[3].location = "Everywhere"

(***************************************************************************)
(* C8 (as claimed): once the store has failed in an iteration, no picker   *)
(* session is running or on display in it.                                 *)
(***************************************************************************)
C8_NoPickerAfterStoreFailure == StoreFailed => pc # "picker"

(***************************************************************************)
(* C9: after a store failure nothing is ever written to standard output,   *)
(* the picker's output is never matched on, the process can only end by a  *)
(* panic with a non-zero status, and no further iteration or store query   *)
(* is started, whatever the picker returns.                                *)
(***************************************************************************)
C9_StoreFailureState ==
    StoreFailed =>
        /\ stdout = ""
        /\ pc \in {"picker", "join", "panic"}
        /\ exit_code \in {Running, PanicExit}
        /\ pc = "panic" <=> exit_code = PanicExit
        /\ threads[iter].why \in {"open", "search"}

C9_StoreFailureStep ==
    StoreFailed => /\ iter' = iter
                   /\ QueriesIssued' = QueriesIssued
                   /\ stdout' = stdout

C9_StoreFailureFatal == []C9_StoreFailureState /\ [][C9_StoreFailureStep]_vars

\* the run has ended after a store failure although the user only aborted
C9_Witness ==
    /\ StoreFailed
    /\ pc = "panic"
    /\ output.kind = "Some"
    /\ output.final_key = "ESC"
    /\ iter = 2

(***************************************************************************)
(* C10 (as claimed): when the run has ended after the picker returned no   *)
(* output, the exit status is non-zero; when it has ended after an abort   *)
(* key with no producer failure, it is zero; nothing is written in either. *)
(***************************************************************************)
C10_ExitStatusDistinguishes ==
    pc \in {"exit", "panic"} =>
        /\ output.kind = "None" => exit_code # 0 /\ stdout = ""
        /\ (output.kind = "Some" /\ output.final_key \in AbortKeys /\ ~ProducerPanicked)
              => exit_code = 0 /\ stdout = ""

(***************************************************************************)
(* Further derived notions                                                 *)
(***************************************************************************)
\* history.search(..) of iteration i has returned its rows
QueryReturned(i) == threads[i].nq = 1 /\ threads[i].why # "search"

\* the sender of iteration i has been dropped: send_entries returned, or
\* the thread unwound from a panic
SenderDropped(i) == threads[i].st \in {"finished", "panicked"}

\* what the picker has taken out of the current channel
Received == SubSeq(chan, 1, nrecv)

IsPrefix(s, t) == Len(s) <= Len(t) /\ s = SubSeq(t, 1, Len(s))

(***************************************************************************)
(* C11 (as claimed): the producer never holds the full result of the store *)
(* query before it has forwarded the first entry.                          *)
(***************************************************************************)
C11_NeverHoldsFullResult ==
    (iter >= 1 /\ threads[iter].st = "send" /\ chan = <<>>)
        => Len(threads[iter].res) <= 1

(***************************************************************************)
(* C11 (amended): the producer sends nothing before history.search has     *)
(* returned the complete result; from then on it holds the rows not yet    *)
(* sent and forwards them one at a time, in order, so that what has been   *)
(* sent followed by what it still holds is the result.                     *)
(***************************************************************************)
C11_ForwardsAfterQueryReturns ==
    iter >= 1 =>
        LET t == threads[iter]
        IN  /\ t.st \in {"open", "search"} => chan = <<>> /\ full = <<>>
            /\ t.st = "send" => QueryReturned(iter) /\ chan \o t.res = full
            /\ chan # <<>> => QueryReturned(iter) /\ IsPrefix(chan, full)

\* the picker has taken the first entry while the producer still holds one
C11_Witness ==
    /\ pc = "picker"
    /\ nrecv = 1
    /\ threads[iter].st = "send"
    /\ Len(threads[iter].res) = 1
    /\ Len(full) = 2

(***************************************************************************)
(* C12 (as claimed): in an iteration whose store query succeeded, the      *)
(* producer's sender is dropped only after every entry of the result has   *)
(* been sent.                                                              *)
(***************************************************************************)
C12_ClosedAfterLastEntry ==
    (iter >= 1 /\ QueryReturned(iter) /\ SenderDropped(iter))
        => chan = full

(***************************************************************************)
(* C13 (as claimed): after the picker has exited with an unrecognized key  *)
(* in an iteration whose store did not fail, the controller is still in    *)
(* its loop (about to match on the key), with nothing written.             *)
(***************************************************************************)
C13_OtherKeyKeepsRunning ==
    (output.kind = "Some" /\ output.final_key = "Ctrl-g" /\ ~StoreFailed)
        => /\ pc \in {"join", "match"}
           /\ exit_code = Running
           /\ stdout = ""

(***************************************************************************)
(* C17 (as claimed): a producer whose store query has returned never       *)
(* fails, whether or not the picker has already exited.                    *)
(***************************************************************************)
C17_ProducerSurvivesPickerExit ==
    \A i \in 1..Len(threads) : QueryReturned(i) => threads[i].st # "panicked"

(***************************************************************************)
(* C18 (as claimed): the accept key without a selected entry does not make *)
(* the controller fail (no producer having failed either).                 *)
(***************************************************************************)
C18_AcceptWithoutSelection ==
    (output.kind = "Some" /\ output.final_key = "Enter"
            /\ output.selected_items = <<>> /\ ~ProducerPanicked)
        => /\ pc # "panic"
           /\ exit_code # PanicExit

(***************************************************************************)
(* C19 (as claimed): in an iteration whose store query returned, the join  *)
(* completes and the controller goes on to interpret the exit signal: it   *)
(* never stops at the join.                                                *)
(***************************************************************************)
C19_JoinLeadsToInterpretation ==
    (iter >= 1 /\ QueryReturned(iter) /\ threads[iter].joined)
        => /\ threads[iter].st = "finished"
           /\ pc \in {"match", "spawn", "exit", "panic"}
           /\ pc = "panic" => (output.kind = "Some" /\ output.final_key = "Enter")

(***************************************************************************)
(* C20: what the picker has received is at every moment a prefix of what   *)
(* the producer has sent, which is a prefix of the result the store        *)
(* returned to this iteration's producer; a new iteration starts from an   *)
(* empty channel; and when the picker finds the channel closed (sender     *)
(* dropped, nothing left to take) after a query that returned, it has      *)
(* received the full result.                                               *)
(***************************************************************************)
C20_ReceivedIsPrefix ==
    iter >= 1 =>
        /\ IsPrefix(Received, chan)
        /\ IsPrefix(chan, full)
        /\ full \in Results
        /\ (pc = "picker" /\ SenderDropped(iter) /\ nrecv = Len(chan)
                /\ QueryReturned(iter))
              => Received = full

\* in a later iteration the picker has drained a closed two-entry stream
C20_Witness ==
    /\ iter >= 2
    /\ pc = "picker"
    /\ SenderDropped(iter)
    /\ nrecv = 2
    /\ Received = full
    /\ threads[iter].location = "Machine"

(***************************************************************************)
(* Reading a display line back: its columns                                *)
(***************************************************************************)
\* the text between the date column's separator and the command's
DurationField(line, cmd) ==
    SubSeq(line, DATE_FORMAT_LENGTH + 4, Len(line) - Len(cmd) - 3)

StartsWith(s, p) == Len(s) >= Len(p) /\ SubSeq(s, 1, Len(p)) = p

\* the colour tier of a duration field, and the field without its codes
Tier(field) ==
    IF StartsWith(field, "^[[33m") THEN "warning"
    ELSE IF StartsWith(field, "^[[31m") THEN "alert"
    ELSE "none"

Visible(field) ==
    IF Tier(field) = "none" THEN field
    ELSE SubSeq(field, 7, Len(field) - 5)

RECURSIVE TrimLeft(_)
TrimLeft(s) ==
    IF Len(s) > 0 /\ SubSeq(s, 1, 1) = " " THEN TrimLeft(SubSeq(s, 2, Len(s))) ELSE s

(***************************************************************************)
(* C14 (as claimed): display and preview never fail, whatever optional     *)
(* fields the entry lacks; the preview of an entry without an identifier   *)
(* is a text.                                                              *)
(***************************************************************************)
C14_FormatterTotal ==
    /\ fmt.display.called => fmt.display.ok
    /\ fmt.preview.called => fmt.preview.ok /\ Len(fmt.preview.text) > 0

(***************************************************************************)
(* C15: the duration shown in a display line is seconds with one decimal   *)
(* (a tenth nearest to it) below 1s, whole seconds below 60s, whole        *)
(* minutes below 60m and whole hours from there on, and is uncoloured      *)
(* below 5s, warning-coloured from 5s to below 60s and alert-coloured from *)
(* 60s on.                                                                 *)
(***************************************************************************)
C15_DurationUnitsAndTiers ==
    (fmt.display.called /\ fmt.item.duration # None) =>
        LET d == fmt.item.duration[1]
            field == DurationField(fmt.display.text, fmt.item.command_line)
            shown == TrimLeft(Visible(field))
        IN  /\ d.secs < 1 =>
                  \E tenths \in 0..10 :
                      /\ shown = ToString(tenths \div 10) \o "." \o ToString(tenths % 10) \o " s"
                      /\ 100 * tenths - d.millis \in -50..50
            /\ (1 <= d.secs /\ d.secs < 60) => shown = ToString(d.secs) \o " s"
            /\ (60 <= d.secs /\ d.secs < 3600) => shown = ToString(d.secs \div 60) \o " m"
            /\ 3600 <= d.secs => shown = ToString(d.secs \div 3600) \o " h"
            /\ Tier(field) = (IF d.secs < 5 THEN "none"
                              ELSE IF d.secs < 60 THEN "warning" ELSE "alert")
            /\ d = [secs |-> 0, millis |-> 400] => shown = "0.4 s" /\ Tier(field) = "none"
            /\ d = [secs |-> 30, millis |-> 0] => shown = "30 s" /\ Tier(field) = "warning"
            /\ d = [secs |-> 90, millis |-> 0] => shown = "1 m"
            /\ d = [secs |-> 7200, millis |-> 0] => shown = "2 h" /\ Tier(field) = "alert"

\* an entry that took exactly 5s has been displayed
C15_Witness ==
    /\ fmt.display.called
    /\ fmt.item.duration = Some([secs |-> 5, millis |-> 0])
    /\ Tier(DurationField(fmt.display.text, fmt.item.command_line)) = "warning"

(***************************************************************************)
(* C16 (as claimed): in every display line the date column is exactly 16   *)
(* characters wide and the duration column exactly 5 visible characters,   *)
(* each followed by the separator.                                         *)
(***************************************************************************)
C16_FixedWidthColumns ==
    fmt.display.called =>
        LET line == fmt.display.text
            cmd == fmt.item.command_line
        IN  /\ SubSeq(line, DATE_FORMAT_LENGTH + 1, DATE_FORMAT_LENGTH + 3) = " | "
            /\ SubSeq(line, Len(line) - Len(cmd) - 2, Len(line)) = " | " \o cmd
            /\ Len(Visible(DurationField(line, cmd))) = DURATION_FORMAT_LENGTH + 2
====
